---- MODULE Spec2Model ----
(***************************************************************************)
(* html-to-slack: the tree walker (parseNode, parseHeader, parseText), the *)
(* top-level loop of parseHtml and the normalizer compressHTML of          *)
(* src/parsers/index.ts.                                                   *)
(*                                                                         *)
(* A DOM node is a record: a text node [type, data] or a tag node          *)
(* [type, name, attribs, children].  Character data and HTML text are      *)
(* sequences of lexemes (one character, or one whole tag such as "<br>").  *)
(* A JavaScript object is a function from its keys to their values, so     *)
(* Object.keys(o) is DOMAIN o and {} is the function with no keys.         *)
(***************************************************************************)
EXTENDS Integers, Sequences, FiniteSets, TLC

VARIABLES body, i, blocks, pc, cur, style, ret, html, once, twice

vars == <<body, i, blocks, pc, cur, style, ret, html, once, twice>>

\* ------------------------------------------------------------------ bounds

\* Largest number of DOM nodes under the body.
MaxNodes == 3

\* Largest number of lexemes of the HTML given to compressHTML.
MaxLen == 5

\* ------------------------------------------------------------- JS values

\* {} as HeaderBlock / {} as RichTextSection: an object with no keys.
EmptyObject == [k \in {} |-> TRUE]

\* The default value of parseText's style parameter.
EmptyStyle == [k \in {} |-> TRUE]

\* What reading a missing attribute gives.
Undefined == "undefined"

\* What parseInt gives for a missing indent attribute.
NaN == "NaN"

IsSpace(c) == c \in {" ", "\n", "\t"}

BrLexemes == {"<br>", "<br/>", "<br />", "<br >"}

\* Object.keys(o).length
KeyCount(o) == Cardinality(DOMAIN o)

\* o with o[k] = v assigned
Assign(o, k, v) == [x \in DOMAIN o \cup {k} |-> IF x = k THEN v ELSE o[x]]

Attr(node, k) == IF k \in DOMAIN node.attribs THEN node.attribs[k] ELSE Undefined

\* parseInt of an attribute value of the model: a decimal digit, or missing.
ParseInt(s) ==
  CASE s = "0" -> 0
    [] s = "1" -> 1
    [] s = "2" -> 2
    [] OTHER -> NaN

\* ------------------------------------------------------------ the inputs

TextNode(d) == [type |-> "text", data |-> d]

TagNode(n, a, c) == [type |-> "tag", name |-> n, attribs |-> a, children |-> c]

\* Character data of the text nodes: non-blank, blank, empty, with a <br>.
Datas == {<<"x">>, <<" ">>, <<>>, <<"<br>">>}

\* The tags of the inputs, each with the attributes it carries.
Labels ==
  { <<"p", EmptyObject>>, <<"ul", [indent |-> "1"]>>, <<"ol", EmptyObject>>,
    <<"b", EmptyObject>>,
    <<"i", EmptyObject>>, <<"a", [href |-> "u"]>>, <<"h1", EmptyObject>>,
    <<"table", EmptyObject>> }

\* The nodes of the inputs, before they get children.
NodeLabels ==
  {TextNode(d) : d \in Datas} \cup {TagNode(l[1], l[2], <<>>) : l \in Labels}

\* parent[k] is the parent of node k, 0 for a child of the body, the nodes being
\* numbered in document order.
DocumentOrder(n, parent) ==
  \A k \in 1..n :
    /\ parent[k] < k
    /\ \A j \in (parent[k] + 1)..(k - 1) : parent[j] >= parent[k]

\* Only tags have children.
TagParents(n, parent, lab) ==
  \A k \in 1..n : IF parent[k] = 0 THEN TRUE ELSE lab[parent[k]].type = "tag"

RECURSIVE ChildrenOf(_, _, _, _)
\* The child list of node p (of the body for p = 0).
ChildrenOf(p, n, parent, lab) ==
  LET kids == SelectSeq([k \in 1..n |-> k], LAMBDA k : parent[k] = p)
  IN  [m \in 1..Len(kids) |->
         IF lab[kids[m]].type = "text"
           THEN lab[kids[m]]
           ELSE [lab[kids[m]] EXCEPT !.children = ChildrenOf(kids[m], n, parent, lab)]]

\* body.children is any list of trees of at most MaxNodes nodes in all.
IsBody(b) ==
  \E n \in 0..MaxNodes : \E parent \in [1..n -> 0..MaxNodes] :
    /\ DocumentOrder(n, parent)
    /\ \E lab \in [1..n -> NodeLabels] :
         /\ TagParents(n, parent, lab)
         /\ b = ChildrenOf(0, n, parent, lab)

\* ------------------------------------------------------ parseText (154-218)

InlineTags == {"b", "strong", "i", "em", "s", "del", "code", "a"}

HeadingTags == {"h1", "h2", "h3", "h4", "h5", "h6"}

\* switch (node.name) of parseText: the flag the tag sets on the style object.
SetFlag(name, st) ==
  CASE name \in {"b", "strong"} -> Assign(st, "bold", TRUE)
    [] name \in {"i", "em"} -> Assign(st, "italic", TRUE)
    [] name \in {"s", "del"} -> Assign(st, "strike", TRUE)
    [] name = "code" -> Assign(st, "code", TRUE)
    [] OTHER -> st

\* WithStyle without the test of Object.keys(style).length.
WithStyleAlways(el, st) == Assign(el, "style", st)

\* if (Object.keys(style).length > 0) textElement.style = { ...style }
WithStyle(el, st) == IF KeyCount(st) > 0 THEN Assign(el, "style", st) ELSE el

\* node.data.replace(/<br ?\/?>/g, '\n')
BrToNewline(d) == [k \in 1..Len(d) |-> IF d[k] \in BrLexemes THEN "\n" ELSE d[k]]

\* .replace(/^\s*$/, ''): no m flag, so only a string that is blank as a whole.
BlankIfSpace(d) == IF \A k \in 1..Len(d) : IsSpace(d[k]) THEN <<>> ELSE d

\* StyleAfterCall had the child been given the style object itself, not a copy.
StyleAfterCallShared(st, r) == r.style

\* The style object of the caller after parseText(child, { ...style }) returns:
\* the callee got a copy, so what it set stays with the callee.
StyleAfterCall(st, r) == st

\* parseText threw (a TypeError reading .type of undefined).
TextThrown(st) == [thrown |-> TRUE, texts |-> <<>>, style |-> st]

\* if (node.name === 'a') { ... }: the link element of an anchor.
AnchorLink(node, st) ==
  LET base == WithStyle([type |-> "link", url |-> Attr(node, "href")], st)
  IN  IF node.children[1].type = "text"
        THEN Assign(base, "text", node.children[1].data)
        ELSE base

RECURSIVE parseText(_, _), parseTextChildren(_, _)
\* for (const child of node.children) texts.push(...parseText(child, { ...style }))
parseTextChildren(children, st) ==
  IF children = <<>>
    THEN [thrown |-> FALSE, texts |-> <<>>, style |-> st]
    ELSE LET r == parseText(Head(children), st)
         IN  IF r.thrown
               THEN TextThrown(StyleAfterCall(st, r))
               ELSE LET rest == parseTextChildren(Tail(children), StyleAfterCall(st, r))
                    IN  [rest EXCEPT !.texts = r.texts \o @]

\* The result: whether it threw, the texts returned, and the style object the
\* caller passed as it is when the call ends.
parseText(node, st0) ==
  IF node.type = "tag"
    THEN LET st == SetFlag(node.name, st0)
         IN  IF node.name = "a"
               THEN IF Len(node.children) = 0
                      THEN TextThrown(st)
                      ELSE [thrown |-> FALSE, texts |-> <<AnchorLink(node, st)>>,
                            style |-> st]
               ELSE parseTextChildren(node.children, st)
    ELSE IF node.type = "text"
      THEN [thrown |-> FALSE,
            texts |-> <<WithStyle([type |-> "text",
                                   text |-> BlankIfSpace(BrToNewline(node.data))], st0)>>,
            style |-> st0]
      ELSE [thrown |-> FALSE, texts |-> <<>>, style |-> st0]

\* ----------------------------------------------------- parseHeader (138-153)

\* parseHeader taking the first text child wherever it stands.
parseHeaderAnyText(node) ==
  LET texts == SelectSeq(node.children, LAMBDA c : c.type = "text")
  IN  IF Len(texts) > 0 /\ Len(texts[1].data) > 0
        THEN [type |-> "header",
              text |-> [type |-> "plain_text", text |-> texts[1].data]]
        ELSE EmptyObject

parseHeader(node) ==
  IF /\ Len(node.children) > 0
     /\ node.children[1].type = "text"
     /\ Len(node.children[1].data) > 0
    THEN [type |-> "header",
          text |-> [type |-> "plain_text", text |-> node.children[1].data]]
    ELSE EmptyObject

\* ------------------------------------------------------- parseNode (29-136)

\* NewBlock with a section as the default case of the switch.
NewBlockGeneric(node) ==
  IF node.name \in {"ul", "ol"}
    THEN [type |-> "rich_text_list",
          style |-> IF node.name = "ul" THEN "bullet" ELSE "ordered",
          elements |-> <<>>,
          indent |-> ParseInt(Attr(node, "indent"))]
    ELSE [type |-> "rich_text_section", elements |-> <<>>]

\* switch (node.name) of parseNode, for the tags that neither return at once.
NewBlock(node) ==
  CASE node.name \in {"ul", "ol"} ->
         [type |-> "rich_text_list",
          style |-> IF node.name = "ul" THEN "bullet" ELSE "ordered",
          elements |-> <<>>,
          indent |-> ParseInt(Attr(node, "indent"))]
    [] node.name \in {"li", "p"} -> [type |-> "rich_text_section", elements |-> <<>>]
    [] node.name = "pre" -> [type |-> "rich_text_preformatted", elements |-> <<>>]
    [] node.name = "blockquote" -> [type |-> "rich_text_quote", elements |-> <<>>]
    [] node.name = "img" ->
         LET b == [type |-> "image", image_url |-> Attr(node, "src"),
                   alt_text |-> IF Attr(node, "alt") \in {Undefined, ""}
                                  THEN "" ELSE Attr(node, "alt")]
         IN  IF Attr(node, "title") \in {Undefined, ""}
               THEN b
               ELSE Assign(b, "title", [type |-> "plain_text", text |-> Attr(node, "title")])
    [] OTHER -> EmptyObject

\* FilterEmpty without the filter.
FilterNothing(elements) == elements

\* block.elements.filter((element) => Object.keys(element).length !== 0)
FilterEmpty(elements) == SelectSeq(elements, LAMBDA e : KeyCount(e) # 0)

NodeThrown == [thrown |-> TRUE, isArray |-> FALSE, value |-> EmptyObject]

AsArray(r) ==
  IF r.thrown THEN NodeThrown ELSE [thrown |-> FALSE, isArray |-> TRUE, value |-> r.texts]

AsObject(o) == [thrown |-> FALSE, isArray |-> FALSE, value |-> o]

\* The push of one child's result onto block.elements.
Pushed(elements, childObj) ==
  elements \o (IF childObj.isArray THEN childObj.value ELSE <<childObj.value>>)

RECURSIVE parseNode(_), parseChildren(_, _)
\* for (const child of node.children) { ... } of parseNode
parseChildren(block, children) ==
  IF children = <<>>
    THEN AsObject(block)
    ELSE LET childObj == parseNode(Head(children))
         IN  IF childObj.thrown
               THEN NodeThrown
               ELSE IF "elements" \in DOMAIN block
                 THEN parseChildren(
                        [block EXCEPT !.elements = FilterEmpty(Pushed(@, childObj))],
                        Tail(children))
                 ELSE parseChildren(block, Tail(children))

\* The result: whether it threw, whether it is an array, and the value.
parseNode(node) ==
  IF node.type = "tag"
    THEN IF node.name \in InlineTags
           THEN AsArray(parseText(node, EmptyStyle))
           ELSE IF node.name \in HeadingTags
             THEN AsObject(parseHeader(node))
             ELSE parseChildren(NewBlock(node), node.children)
    ELSE IF node.type = "text"
      THEN AsArray(parseText(node, EmptyStyle))
      ELSE AsObject(EmptyObject)

\* ------------------------------------------------------ parseHtml (292-302)

\* regex.test(text) for /^(?!\n\s*$).*/
RegexTest(text) ==
  ~ (/\ Len(text) > 0
     /\ text[1] = "\n"
     /\ \A k \in 2..Len(text) : IsSpace(text[k]))

\* block.text && regex.test(block.text)
KeepText(block) ==
  /\ "text" \in DOMAIN block
  /\ Len(block.text) > 0
  /\ RegexTest(block.text)

\* What one iteration of body.children.forEach pushes onto blocks.
TopLevel(tmp) ==
  IF ~ tmp.isArray THEN <<tmp.value>> ELSE SelectSeq(tmp.value, KeepText)

\* --------------------------------------------------- compressHTML (219-276)

\* The index a placeholder carries: `<pre>${preTags.length - 1}</pre>`, one
\* digit for the fewer than ten <pre> blocks an input of MaxLen lexemes holds.
Digits == <<"0", "1", "2", "3", "4", "5", "6", "7", "8", "9">>

IsDigit(c) == \E k \in 1..Len(Digits) : Digits[k] = c

\* parseInt(index) of a placeholder's digit
DigitValue(c) == (CHOOSE k \in 1..Len(Digits) : Digits[k] = c) - 1

\* The first position from which h holds lexeme c, 0 if none.
IndexOf(h, c, from) ==
  IF \E k \in from..Len(h) : h[k] = c
    THEN CHOOSE k \in from..Len(h) : h[k] = c /\ \A m \in from..(k - 1) : h[m] # c
    ELSE 0

\* Where the run of [ \t] that ends just before position j starts.
RunStart(h, j) ==
  CHOOSE s \in 1..j :
    /\ \A m \in s..(j - 1) : h[m] \in {" ", "\t"}
    /\ (s = 1 \/ h[s - 1] \notin {" ", "\t"})

\* content.replace(/^\n/, '')
DropLeadingNewline(c) == IF Len(c) > 0 /\ c[1] = "\n" THEN Tail(c) ELSE c

RECURSIVE ExtractPre(_, _)
\* html.replace(/([ \t]*)<pre>([\s\S]*?)<\/pre>/g, ...): the html with each
\* block replaced by its placeholder, and the contents and leading spaces
\* stored, n blocks being stored already.
ExtractPre(h, n) ==
  LET j == IndexOf(h, "<pre>", 1)
      e == IF j = 0 THEN 0 ELSE IndexOf(h, "</pre>", j + 1)
  IN  IF e = 0
        THEN [html |-> h, preTags |-> <<>>, preLeadingSpaces |-> <<>>]
        ELSE LET s == RunStart(h, j)
                 r == ExtractPre(SubSeq(h, e + 1, Len(h)), n + 1)
             IN  [html |-> SubSeq(h, 1, s - 1)
                           \o <<"<pre>", Digits[n + 1], "</pre>">> \o r.html,
                  preTags |-> <<DropLeadingNewline(SubSeq(h, j + 1, e - 1))>>
                              \o r.preTags,
                  preLeadingSpaces |-> <<SubSeq(h, s, j - 1)>> \o r.preLeadingSpaces]

\* RemoveNewlines without the g flag and the [\n ]* of the pattern: the first
\* newline alone is removed.
RemoveFirstNewline(h, inRun) ==
  LET k == IndexOf(h, "\n", 1)
  IN  IF k = 0 THEN h ELSE SubSeq(h, 1, k - 1) \o SubSeq(h, k + 1, Len(h))

RECURSIVE RemoveNewlines(_, _)
\* html.replace(/\n[\n ]*/g, '') between the stashing and the restoring of the
\* tags' attributes: a tag is one lexeme, which the removal leaves whole.
\* inRun: the lexeme before was removed as part of a run.
RemoveNewlines(h, inRun) ==
  IF h = <<>>
    THEN <<>>
    ELSE IF Head(h) = "\n" \/ (inRun /\ Head(h) = " ")
      THEN RemoveNewlines(Tail(h), TRUE)
      ELSE <<Head(h)>> \o RemoveNewlines(Tail(h), FALSE)

RECURSIVE StripIndent(_, _, _)
\* content.replace(new RegExp('^' + leadingSpaces, 'mg'), '')
StripIndent(c, lead, lineStart) ==
  IF c = <<>>
    THEN <<>>
    ELSE IF /\ lineStart
            /\ Len(lead) > 0
            /\ Len(c) >= Len(lead)
            /\ SubSeq(c, 1, Len(lead)) = lead
      THEN StripIndent(SubSeq(c, Len(lead) + 1, Len(c)), lead, FALSE)
      ELSE <<Head(c)>> \o StripIndent(Tail(c), lead, Head(c) = "\n")

RECURSIVE RestorePre(_, _, _)
\* html.replace(/<pre>(\d+)<\/pre>/g, ...)
RestorePre(h, preTags, preLeadingSpaces) ==
  IF h = <<>>
    THEN <<>>
    ELSE IF /\ Len(h) >= 3
            /\ h[1] = "<pre>"
            /\ IsDigit(h[2])
            /\ h[3] = "</pre>"
      THEN <<"<pre>">>
           \o StripIndent(preTags[DigitValue(h[2]) + 1],
                          preLeadingSpaces[DigitValue(h[2]) + 1], TRUE)
           \o <<"</pre>">>
           \o RestorePre(SubSeq(h, 4, Len(h)), preTags, preLeadingSpaces)
      ELSE <<Head(h)>> \o RestorePre(Tail(h), preTags, preLeadingSpaces)

\* .replace(/<br ?\/?>/g, '\n')
ReplaceBr(h) == [k \in 1..Len(h) |-> IF h[k] \in BrLexemes THEN "\n" ELSE h[k]]

\* .replace(/<\/?span[^>]*>/g, '').replace(/<\/?div[^>]*>/g, '')
StripSpanDiv(h) ==
  SelectSeq(h, LAMBDA c : c \notin {"<span>", "</span>", "<div>", "</div>"})

InlineOpen == {"<b>", "<i>", "<code>"}

RECURSIVE SpaceInline(_, _)
\* content.replace(/(\S)(<b>|<i>|<code>)/g, '$1 $2'); prev is the lexeme before
\* c when its last character is free to be $1: not a space, and not the end
\* of the match before.
SpaceInline(c, prevFree) ==
  IF c = <<>>
    THEN <<>>
    ELSE IF Head(c) \in InlineOpen /\ prevFree
      THEN <<" ", Head(c)>> \o SpaceInline(Tail(c), FALSE)
      ELSE <<Head(c)>> \o SpaceInline(Tail(c), ~ IsSpace(Head(c)))

RECURSIVE SpaceParagraphs(_)
\* html.replace(/<p>([\s\S]*?)<\/p>/g, ...)
SpaceParagraphs(h) ==
  LET j == IndexOf(h, "<p>", 1)
      e == IF j = 0 THEN 0 ELSE IndexOf(h, "</p>", j + 1)
  IN  IF e = 0
        THEN h
        ELSE SubSeq(h, 1, j) \o SpaceInline(SubSeq(h, j + 1, e - 1), FALSE)
             \o <<"</p>">> \o SpaceParagraphs(SubSeq(h, e + 1, Len(h)))

compressHTML(h) ==
  LET x == ExtractPre(h, 0)
      collapsed == RemoveNewlines(x.html, FALSE)
      restored == RestorePre(collapsed, x.preTags, x.preLeadingSpaces)
  IN  SpaceParagraphs(StripSpanDiv(ReplaceBr(restored)))

\* The style objects the recursion of parseText builds from the inputs' tags.
InheritedStyles ==
  {[k \in S |-> TRUE] : S \in SUBSET {"bold", "italic"}}

Init ==
  /\ IsBody(body)
  /\ i = 0
  /\ blocks = <<>>
  /\ pc = "start"
  /\ cur = <<>>
  /\ style = EmptyStyle
  /\ ret = <<>>
  /\ html = <<>>
  /\ once = <<>>
  /\ twice = <<>>

\* One iteration of body.children.forEach in parseHtml.
ParseHtmlNode ==
  /\ pc \in {"start", "forEach"}
  /\ i < Len(body)
  /\ LET tmp == parseNode(body[i + 1])
     IN  /\ cur' = body[i + 1]
         /\ ret' = tmp
         /\ IF tmp.thrown
              THEN pc' = "threw" /\ UNCHANGED <<i, blocks>>
              ELSE /\ pc' = "forEach"
                   /\ i' = i + 1
                   /\ blocks' = blocks \o TopLevel(tmp)
  /\ UNCHANGED <<body, style, html, once, twice>>

\* The loop is over: blocks is handed to blockBuilder.
ParseHtmlBuild ==
  /\ pc \in {"start", "forEach"}
  /\ i = Len(body)
  /\ pc' = "built"
  /\ UNCHANGED <<body, i, blocks, cur, style, ret, html, once, twice>>

\* A call parseText(node, style) with an inherited style.
CallParseText ==
  /\ pc = "start"
  /\ \E k \in 1..Len(body), s \in InheritedStyles :
       /\ cur' = body[k]
       /\ style' = s
       /\ ret' = parseText(body[k], s)
  /\ pc' = "parseText"
  /\ UNCHANGED <<body, i, blocks, html, once, twice>>

\* A call parseHeader(node) on a heading.
CallParseHeader ==
  /\ pc = "start"
  /\ \E k \in 1..Len(body) :
       /\ body[k].type = "tag"
       /\ body[k].name \in HeadingTags
       /\ cur' = body[k]
       /\ ret' = AsObject(parseHeader(body[k]))
  /\ pc' = "parseHeader"
  /\ UNCHANGED <<body, i, blocks, style, html, once, twice>>

Next ==
  \/ ParseHtmlNode
  \/ ParseHtmlBuild
  \/ CallParseText
  \/ CallParseHeader

Spec == Init /\ [][Next]_vars

\* ------------------------------------------------------------ compressHTML

\* The lexemes of the HTML given to compressHTML.
Lexemes == {"x", " ", "\n", "<br>", "<pre>", "</pre>", "<p>", "</p>", "<b>", "<div>"}

Htmls == UNION {[1..n -> Lexemes] : n \in 0..MaxLen}

InitCompress ==
  /\ html \in Htmls
  /\ pc = "start"
  /\ once = <<>>
  /\ twice = <<>>
  /\ body = <<>>
  /\ i = 0
  /\ blocks = <<>>
  /\ cur = <<>>
  /\ style = EmptyStyle
  /\ ret = <<>>

\* html = compressHTML(html), the first statement of parseHtml.
Compress ==
  /\ pc = "start"
  /\ once' = compressHTML(html)
  /\ pc' = "once"
  /\ UNCHANGED <<html, twice, body, i, blocks, cur, style, ret>>

\* compressHTML again, on what it returned.
CompressAgain ==
  /\ pc = "once"
  /\ twice' = compressHTML(once)
  /\ pc' = "twice"
  /\ UNCHANGED <<html, once, body, i, blocks, cur, style, ret>>

NextCompress == Compress \/ CompressAgain

SpecCompress == InitCompress /\ [][NextCompress]_vars

\* ------------------------------------------------------------ the claims

ContainerTags == {"ul", "ol", "li", "p", "pre", "blockquote"}

IsTag(n, names) == n.type = "tag" /\ n.name \in names

IsUnrecognized(n) ==
  /\ n.type = "tag"
  /\ n.name \notin InlineTags \cup HeadingTags \cup ContainerTags \cup {"img"}

\* parseNode was called on cur, and returned or threw.
ParsedNode == pc \in {"forEach", "threw"}

RECURSIVE NoEmptyObject(_)
\* o is not {} and holds no {} at any depth of its elements.
NoEmptyObject(o) ==
  /\ KeyCount(o) # 0
  /\ IF "elements" \in DOMAIN o
       THEN \A k \in 1..Len(o.elements) : NoEmptyObject(o.elements[k])
       ELSE TRUE

\* C1: no block of the list parseHtml hands to blockBuilder, and no element at
\* any depth inside a block, is the empty object.
C1_NoEmptyBlock ==
  pc = "built" => \A k \in 1..Len(blocks) : NoEmptyObject(blocks[k])

\* C2: parseNode, parseHeader and parseText return a value for every tree and
\* never throw.
C2_NeverThrows ==
  /\ pc # "threw"
  /\ pc = "parseText" => ~ ret.thrown

\* The flag an inline tag stands for.
FlagOf(name) ==
  CASE name \in {"b", "strong"} -> {"bold"}
    [] name \in {"i", "em"} -> {"italic"}
    [] name \in {"s", "del"} -> {"strike"}
    [] name = "code" -> {"code"}
    [] OTHER -> {}

RECURSIVE PathFlags(_, _), PathFlagsOfAll(_, _)
\* For each leaf under node in document order (a text node, or an anchor), the
\* flags of the tags on the path down to it, F being those above node.
PathFlags(node, F) ==
  IF node.type = "text"
    THEN <<F>>
    ELSE IF node.name = "a"
      THEN <<F \cup FlagOf(node.name)>>
      ELSE PathFlagsOfAll(node.children, F \cup FlagOf(node.name))

PathFlagsOfAll(children, F) ==
  IF children = <<>>
    THEN <<>>
    ELSE PathFlags(Head(children), F) \o PathFlagsOfAll(Tail(children), F)

\* The flags an element carries as true.
LeafFlags(el) ==
  IF "style" \in DOMAIN el THEN {f \in DOMAIN el.style : el.style[f]} ELSE {}

\* C3: the style of each leaf parseText produces is exactly the flags of the
\* inline tags on the path from the root of the call down to the leaf, added
\* to the inherited ones: no flag is lost on the way down and none comes from
\* a sibling branch.
C3_StyleIsPathFlags ==
  (pc = "parseText" /\ ~ ret.thrown) =>
    [k \in 1..Len(ret.texts) |-> LeafFlags(ret.texts[k])]
      = PathFlags(cur, DOMAIN style)

\* A text inside <b><i>, after a call with no inherited style, is bold and italic.
C3_Witness ==
  /\ pc = "parseText"
  /\ style = EmptyStyle
  /\ IsTag(cur, {"b"})
  /\ Len(cur.children) = 1
  /\ IsTag(cur.children[1], {"i"})
  /\ ~ ret.thrown
  /\ Len(ret.texts) = 1
  /\ ret.texts[1].type = "text"
  /\ LeafFlags(ret.texts[1]) = {"bold", "italic"}

\* C5: parseText of an anchor, under any inherited style, returns exactly one
\* link: url the href, a style key exactly when the style is not empty, text
\* the data of the first child when that is a text node and unset otherwise.
C5_AnchorOneLink ==
  (pc = "parseText" /\ IsTag(cur, {"a"})) =>
    /\ ~ ret.thrown
    /\ Len(ret.texts) = 1
    /\ ret.texts[1].type = "link"
    /\ ret.texts[1].url = Attr(cur, "href")
    /\ ("style" \in DOMAIN ret.texts[1]) <=> (KeyCount(style) > 0)
    /\ IF Len(cur.children) > 0 /\ cur.children[1].type = "text"
         THEN /\ "text" \in DOMAIN ret.texts[1]
              /\ ret.texts[1].text = cur.children[1].data
         ELSE "text" \notin DOMAIN ret.texts[1]

\* The heading's first child exists, is a text node and has data.
HasHeaderText(n) ==
  /\ Len(n.children) > 0
  /\ n.children[1].type = "text"
  /\ n.children[1].data # <<>>

\* C6: for a heading, parseNode and parseHeader return the header of the first
\* child's data when that child is a text node with data, and the empty object
\* in every other case, whatever the other children are.
C6_Header ==
  ((ParsedNode \/ pc = "parseHeader") /\ IsTag(cur, HeadingTags)) =>
    /\ ~ ret.thrown
    /\ ~ ret.isArray
    /\ IF HasHeaderText(cur)
         THEN /\ DOMAIN ret.value = {"type", "text"}
              /\ ret.value.type = "header"
              /\ DOMAIN ret.value.text = {"type", "text"}
              /\ ret.value.text.type = "plain_text"
              /\ ret.value.text.text = cur.children[1].data
         ELSE DOMAIN ret.value = {}

\* parseNode of a heading whose first child is a tag holding a text: the
\* nested text gives no header.
C6_Witness ==
  /\ pc = "forEach"
  /\ IsTag(cur, HeadingTags)
  /\ Len(cur.children) > 0
  /\ cur.children[1].type = "tag"
  /\ Len(cur.children[1].children) > 0
  /\ DOMAIN ret.value = {}

StyleFlags == {"bold", "italic", "strike", "code"}

\* el is a text or a link with no style key, or with a style of true flags.
StyleOk(el) ==
  /\ el.type \in {"text", "link"}
  /\ IF "style" \in DOMAIN el
       THEN /\ DOMAIN el.style # {}
            /\ DOMAIN el.style \subseteq StyleFlags
            /\ \A f \in DOMAIN el.style : el.style[f] = TRUE
       ELSE TRUE

\* C7: every element parseText produces has no style key, or a style with at
\* least one flag and every flag true.
C7_StyleNeverEmpty ==
  /\ (pc = "parseText" /\ ~ ret.thrown) =>
       \A k \in 1..Len(ret.texts) : StyleOk(ret.texts[k])
  /\ (pc = "forEach" /\ ret.isArray) =>
       \A k \in 1..Len(ret.value) : StyleOk(ret.value[k])

\* A call with no inherited style on a tag that sets no flag: the element it
\* gives has no style key.
C7_Witness ==
  /\ pc = "parseText"
  /\ style = EmptyStyle
  /\ IsTag(cur, {"p", "a"})
  /\ ~ ret.thrown
  /\ Len(ret.texts) > 0
  /\ \A k \in 1..Len(ret.texts) : "style" \notin DOMAIN ret.texts[k]

RECURSIVE ExpectedElements(_)
\* The results of parseNode on the children in document order, arrays
\* flattened in place, objects as one entry, empty objects left out.
ExpectedElements(children) ==
  IF children = <<>>
    THEN <<>>
    ELSE LET r == parseNode(Head(children))
         IN  (IF r.isArray
                THEN r.value
                ELSE IF KeyCount(r.value) = 0 THEN <<>> ELSE <<r.value>>)
             \o ExpectedElements(Tail(children))

\* C8 as stated: an unrecognized tag with children gives a container whose
\* elements hold the children's results, and the empty object only when it has
\* no children.
C8_GenericSection ==
  (pc = "forEach" /\ IsUnrecognized(cur)) =>
    IF Len(cur.children) > 0
      THEN /\ "elements" \in DOMAIN ret.value
           /\ ret.value.elements = ExpectedElements(cur.children)
      ELSE DOMAIN ret.value = {}

\* C8 amended: for an unrecognized tag parseNode parses the children and drops
\* their results: it returns the empty object with or without children, and
\* fails exactly when parsing a child fails.
C8_UnrecognizedIsEmpty ==
  (ParsedNode /\ IsUnrecognized(cur)) =>
    /\ ret.thrown <=> \E k \in 1..Len(cur.children) : parseNode(cur.children[k]).thrown
    /\ ~ ret.thrown => (~ ret.isArray /\ DOMAIN ret.value = {})

\* An unrecognized tag whose child gives elements, and the empty object returned.
C8_Witness ==
  /\ pc = "forEach"
  /\ IsUnrecognized(cur)
  /\ Len(cur.children) > 0
  /\ ExpectedElements(cur.children) # <<>>
  /\ ~ ret.isArray
  /\ DOMAIN ret.value = {}

\* block.elements of parseNode(cur) once the first k children are processed.
ElementsAfter(k) ==
  parseChildren(NewBlock(cur), SubSeq(cur.children, 1, k)).value.elements

\* C9: for a container tag, the elements of the block parseNode returns are the
\* children's results in document order, flattened, without the empty objects,
\* and after each child the accumulated elements hold no empty object.
C9_ContainerElements ==
  (pc = "forEach" /\ IsTag(cur, ContainerTags)) =>
    /\ ~ ret.isArray
    /\ "elements" \in DOMAIN ret.value
    /\ ret.value.elements = ElementsAfter(Len(cur.children))
    /\ \A k \in 0..Len(cur.children) :
         /\ ElementsAfter(k) = ExpectedElements(SubSeq(cur.children, 1, k))
         /\ \A m \in 1..Len(ElementsAfter(k)) : KeyCount(ElementsAfter(k)[m]) # 0

\* A container with a child whose result is the empty object and a child that
\* gives elements.
C9_Witness ==
  /\ pc = "forEach"
  /\ IsTag(cur, ContainerTags)
  /\ \E k \in 1..Len(cur.children) :
       LET r == parseNode(cur.children[k]) IN ~ r.isArray /\ KeyCount(r.value) = 0
  /\ "elements" \in DOMAIN ret.value
  /\ Len(ret.value.elements) > 0

\* The element has a text that is neither empty or unset nor blank.
NotBlank(el) ==
  /\ "text" \in DOMAIN el
  /\ \E k \in 1..Len(el.text) : ~ IsSpace(el.text[k])

\* C10: of the list parseNode returns for a top-level node, parseHtml keeps
\* exactly the elements, texts and links alike, whose text is neither empty or
\* unset nor blank; a single object is appended as it is.
C10_TopLevelFilter ==
  (pc = "forEach" /\ i = 1) =>
    blocks = IF ret.isArray THEN SelectSeq(ret.value, NotBlank) ELSE <<ret.value>>

\* C4 as stated: compressHTML(compressHTML(h)) = compressHTML(h).
C4_Idempotent == pc = "twice" => twice = once

\* h has a <pre> ... </pre> block.
HasPreBlock(h) ==
  \E j \in 1..Len(h), e \in 1..Len(h) : j < e /\ h[j] = "<pre>" /\ h[e] = "</pre>"

\* h without its white space and its <span> and <div> tags.
Solid(h) ==
  SelectSeq(h, LAMBDA c :
    ~ IsSpace(c) /\ c \notin {"<span>", "</span>", "<div>", "</div>"})

\* An inline opening tag comes after another with nothing but white space,
\* <span> and <div> tags between them.
HasInlineAfterInline(h) ==
  \E k \in 1..(Len(Solid(h)) - 1) :
    Solid(h)[k] \in InlineOpen /\ Solid(h)[k + 1] \in InlineOpen

\* The inputs of C4 amended.
Plain(h) ==
  /\ \A k \in 1..Len(h) : h[k] \notin BrLexemes
  /\ ~ HasPreBlock(h)
  /\ ~ HasInlineAfterInline(h)

\* C4 amended: compressHTML(compressHTML(h)) = compressHTML(h) for the h with
\* no <br> tag, no <pre> block and no inline opening tag right after another.
C4_IdempotentOnPlain == (pc = "twice" /\ Plain(html)) => twice = once

\* A plain input whose newlines compressHTML removed and whose inline tag in
\* a <p> it spaced.
C4_Witness ==
  /\ pc = "twice"
  /\ Plain(html)
  /\ \E k \in 1..Len(html) : html[k] = "\n"
  /\ \E k \in 2..Len(once) : once[k] \in InlineOpen /\ once[k - 1] = " "
  /\ \A k \in 1..Len(html) : html[k] # " "

====
